---- MODULE Spec2Model ----
(***************************************************************************)
(* Model of extensions/ffi/lib.rs: the two ops op_dlopen and op_dlcall,    *)
(* the FFIType vocabulary, the conversion of an FFIArg into a native       *)
(* libffi argument cell and the conversion of the native return value      *)
(* back into a JSON value.                                                 *)
(*                                                                         *)
(* Numbers are bit sequences, most significant bit first, so that the      *)
(* 64-bit accessors and the `as` casts keep their exact width.  A float is *)
(* a sign, the exponent of its leading bit and its significand bits.       *)
(***************************************************************************)
EXTENDS Integers, Sequences, FiniteSets, TLC

\* ------------------------------------------------------------------------
\* Bit sequences
\* ------------------------------------------------------------------------

Zeros(n) == [i \in 1..n |-> 0]

Ones(n) == [i \in 1..n |-> 1]

\* the w low bits of b
Low(b, w) == SubSeq(b, Len(b) - w + 1, Len(b))

\* the bits of b above its w low bits
High(b, w) == SubSeq(b, 1, Len(b) - w)

\* n < 2^w written on w bits (w small enough for machine arithmetic)
NatBits(n, w) == [i \in 1..w |-> (n \div (2 ^ (w - i))) % 2]

\* the number a short bit sequence denotes (Len(b) <= 30)
RECURSIVE BitsNat(_)
BitsNat(b) ==
  IF b = <<>> THEN 0 ELSE 2 * BitsNat(SubSeq(b, 1, Len(b) - 1)) + b[Len(b)]

Not(b) == [i \in 1..Len(b) |-> 1 - b[i]]

\* b + 1 on Len(b) bits, the carry out dropped
RECURSIVE Inc(_)
Inc(b) ==
  IF b = <<>> THEN <<>>
  ELSE IF b[Len(b)] = 0 THEN SubSeq(b, 1, Len(b) - 1) \o <<1>>
  ELSE Inc(SubSeq(b, 1, Len(b) - 1)) \o <<0>>

\* two's complement negation on Len(b) bits
TwosNeg(b) == Inc(Not(b))

RECURSIVE StripLeading(_)
StripLeading(b) ==
  IF b = <<>> \/ b[1] = 1 THEN b ELSE StripLeading(Tail(b))

RECURSIVE StripTrailing(_)
StripTrailing(b) ==
  IF b = <<>> \/ b[Len(b)] = 1 THEN b
  ELSE StripTrailing(SubSeq(b, 1, Len(b) - 1))

ZeroExt(b, w) == Zeros(w - Len(b)) \o b

SignExt(b, w) == [i \in 1..(w - Len(b)) |-> b[1]] \o b

\* round-to-nearest, ties-to-even of keep.rest to Len(keep) bits
RoundNE(keep, rest) ==
  LET up == /\ rest # <<>>
            /\ rest[1] = 1
            /\ (Tail(rest) # Zeros(Len(rest) - 1) \/ keep[Len(keep)] = 1)
  IN  IF ~up THEN [bits |-> keep, carry |-> FALSE]
      ELSE [bits |-> Inc(keep), carry |-> keep = Ones(Len(keep))]

\* ------------------------------------------------------------------------
\* JSON values (serde_json::Value) and floats
\* ------------------------------------------------------------------------

\* width of the 64-bit accessors as_u64 / as_i64
AccessorBits == 64

\* f64 and f32 significand widths and f32's exponent range
F64Sig == 53

F32Sig == 24

F32MinExp == -126

F32MaxExp == 127

Null == [k |-> "Null"]

Str == [k |-> "String"]

\* Number variants: a u64, a negative i64 (two's complement), a finite f64
PosInt(b) == [k |-> "PosInt", b |-> b]

NegInt(b) == [k |-> "NegInt", b |-> b]

Float(f) == [k |-> "Float", f |-> f]

\* floats: zero, infinity, NaN, or (-1)^s * 1.m[2..] * 2^e
FZero(s) == [c |-> "zero", s |-> s]

FInf(s) == [c |-> "inf", s |-> s]

FNaN == [c |-> "nan"]

Fin(s, e, m) == [c |-> "fin", s |-> s, e |-> e, m |-> m]

\* a small natural number as a u64, and minus a small natural as an i64
U64(n) == Zeros(AccessorBits - 30) \o NatBits(n, 30)

I64Neg(n) == TwosNeg(U64(n))

\* integer to f64 (`n as f64`): round to nearest even on 53 bits
MagToF64(s, mag) ==
  LET b == StripLeading(mag)
      L == Len(b)
  IN  IF L = 0 THEN FZero(0)
      ELSE IF L <= F64Sig THEN Fin(s, L - 1, b \o Zeros(F64Sig - L))
      ELSE LET r == RoundNE(SubSeq(b, 1, F64Sig), SubSeq(b, F64Sig + 1, L))
           IN  IF r.carry THEN Fin(s, L, <<1>> \o Zeros(F64Sig - 1))
               ELSE Fin(s, L - 1, r.bits)

\* serde_json Value::as_u64 / as_i64 / as_f64: None is "none"
None == [some |-> FALSE]

Some(v) == [some |-> TRUE, v |-> v]

value_as_u64(value) ==
  IF value.k = "PosInt" THEN Some(value.b) ELSE None

value_as_i64(value) ==
  CASE value.k = "PosInt" ->
         IF value.b[1] = 0 THEN Some(value.b) ELSE None
    [] value.k = "NegInt" -> Some(value.b)
    [] OTHER -> None

value_as_f64(value) ==
  CASE value.k = "PosInt" -> Some(MagToF64(0, value.b))
    [] value.k = "NegInt" -> Some(MagToF64(1, TwosNeg(value.b)))
    [] value.k = "Float" -> Some(value.f)
    [] OTHER -> None

\* `x as f32` of a f64: round to nearest even on 24 bits, overflow to
\* infinity, gradual underflow to zero
F64ToF32(f) ==
  IF f.c # "fin" THEN f
  ELSE IF f.e > F32MaxExp THEN FInf(f.s)
  ELSE LET sh0 == IF f.e < F32MinExp THEN F32MinExp - f.e ELSE 0
           sh == IF sh0 > F32Sig + 2 THEN F32Sig + 2 ELSE sh0
           x == Zeros(sh) \o f.m
           r == RoundNE(SubSeq(x, 1, F32Sig), SubSeq(x, F32Sig + 1, Len(x)))
           e0 == IF f.e < F32MinExp THEN F32MinExp ELSE f.e
       IN  IF r.carry
             THEN IF e0 + 1 > F32MaxExp THEN FInf(f.s)
                  ELSE Fin(f.s, e0 + 1, <<1>> \o Zeros(F32Sig - 1))
           ELSE IF r.bits = Zeros(F32Sig) THEN FZero(f.s)
           ELSE Fin(f.s, e0, r.bits)

\* f32 to f64 (`f64::from(f32)`): exact, a subnormal f32 is normalised
F32ToF64(f) ==
  IF f.c # "fin" THEN f
  ELSE LET b == StripLeading(f.m)
           z == Len(f.m) - Len(b)
       IN  Fin(f.s, f.e - z, b \o Zeros(F64Sig - Len(b)))

\* ------------------------------------------------------------------------
\* FFIType and the conversions of op_dlcall
\* ------------------------------------------------------------------------

\* width of usize / isize on the supported (64-bit) targets
PointerBits == 64

FFIType ==
  {"Void", "U8", "I8", "U16", "I16", "U32", "I32", "U64", "I64",
   "USize", "ISize", "F32", "F64"}

UnsignedTypes == {"U8", "U16", "U32", "U64", "USize"}

SignedTypes == {"I8", "I16", "I32", "I64", "ISize"}

FloatTypes == {"F32", "F64"}

\* impl From<String> for FFIType; "unimplemented" is the unimplemented!() arm
FFITypeFromString(string) ==
  CASE string = "void" -> "Void"
    [] string = "u8" -> "U8"
    [] string = "i8" -> "I8"
    [] string = "u16" -> "U16"
    [] string = "i16" -> "I16"
    [] string = "u32" -> "U32"
    [] string = "i32" -> "I32"
    [] string = "u64" -> "U64"
    [] string = "i64" -> "I64"
    [] string = "usize" -> "USize"
    [] string = "isize" -> "ISize"
    [] string = "f32" -> "F32"
    [] string = "f64" -> "F64"
    [] OTHER -> "unimplemented"

\* impl From<FFIType> for libffi::middle::Type: the size in bits of the
\* native type (0 for void)
TypeBits(type) ==
  CASE type = "Void" -> 0
    [] type \in {"U8", "I8"} -> 8
    [] type \in {"U16", "I16"} -> 16
    [] type \in {"U32", "I32", "F32"} -> 32
    [] type \in {"U64", "I64", "F64"} -> 64
    [] type \in {"USize", "ISize"} -> PointerBits

\* native values: unit, an integer of TypeBits(type) bits, a float
Unit == [t |-> "Void"]

NativeInt(type, b) == [t |-> type, b |-> b]

NativeFloat(type, f) == [t |-> type, f |-> f]

\* FFIArg::as_u64 / as_i64 / as_f64: Option::expect panics on None
Panic(msg) == [panic |-> TRUE, msg |-> msg]

Done(v) == [panic |-> FALSE, v |-> v]

as_u64(arg) ==
  LET o == value_as_u64(arg.value)
  IN  IF o.some THEN Done(o.v)
      ELSE Panic("Expected ffi arg value to be an unsigned integer")

as_i64(arg) ==
  LET o == value_as_i64(arg.value)
  IN  IF o.some THEN Done(o.v)
      ELSE Panic("Expected ffi arg value to be a signed integer")

as_f64(arg) ==
  LET o == value_as_f64(arg.value)
  IN  IF o.some THEN Done(o.v)
      ELSE Panic("Expected ffi arg value to be a float")

\* variant: a cast that saturates instead of truncating
CastIntSaturating(b, w) ==
  IF High(b, w) = Zeros(Len(b) - w) THEN Low(b, w) ELSE Ones(w)

\* integer `as` cast to a narrower or equal width: truncation
CastInt(b, w) == Low(b, w)

\* the value a match arm of From<FFIArg> for Arg computes and takes the
\* address of: arg.as_u64() as u8, arg.as_i64() as i8, ...
ArgValue(type, arg) ==
  CASE type = "Void" -> Done(Unit)
    [] type \in UnsignedTypes ->
         LET r == as_u64(arg)
         IN  IF r.panic THEN r
             ELSE Done(NativeInt(type, CastInt(r.v, TypeBits(type))))
    [] type \in SignedTypes ->
         LET r == as_i64(arg)
         IN  IF r.panic THEN r
             ELSE Done(NativeInt(type, CastInt(r.v, TypeBits(type))))
    [] type = "F32" ->
         LET r == as_f64(arg)
         IN  IF r.panic THEN r ELSE Done(NativeFloat(type, F64ToF32(r.v)))
    [] type = "F64" ->
         LET r == as_f64(arg)
         IN  IF r.panic THEN r ELSE Done(NativeFloat(type, r.v))

\* impl From<FFIArg> for Arg, up to the value the Arg is built on: the
\* type name is converted first, which panics outside the vocabulary
ArgFrom(arg) ==
  LET type == FFITypeFromString(arg.arg_type)
  IN  IF type = "unimplemented" THEN Panic("not implemented")
      ELSE ArgValue(type, arg)

\* json!(x) of the native result of cif.call::<T>: () is null, an unsigned
\* integer a PosInt, a signed one a NegInt when negative, a float a Number
\* when finite and null otherwise
JsonOfFloat(f) ==
  CASE f.c = "fin" -> Float(f)
    [] f.c = "zero" -> Float(f)
    [] OTHER -> Null

\* variant: every integer result converted as if its type were unsigned
JsonOfAsUnsigned(native) ==
  CASE native.t = "Void" -> Null
    [] native.t \in UnsignedTypes \cup SignedTypes ->
         PosInt(ZeroExt(native.b, AccessorBits))
    [] native.t = "F32" -> JsonOfFloat(F32ToF64(native.f))
    [] native.t = "F64" -> JsonOfFloat(native.f)

\* variant: the unit result converted to the number 0
JsonOfUnitAsZero(native) ==
  CASE native.t = "Void" -> PosInt(Zeros(AccessorBits))
    [] native.t \in UnsignedTypes -> PosInt(ZeroExt(native.b, AccessorBits))
    [] native.t \in SignedTypes ->
         IF native.b[1] = 1 THEN NegInt(SignExt(native.b, AccessorBits))
         ELSE PosInt(ZeroExt(native.b, AccessorBits))
    [] native.t = "F32" -> JsonOfFloat(F32ToF64(native.f))
    [] native.t = "F64" -> JsonOfFloat(native.f)

JsonOf(native) ==
  CASE native.t = "Void" -> Null
    [] native.t \in UnsignedTypes -> PosInt(ZeroExt(native.b, AccessorBits))
    [] native.t \in SignedTypes ->
         IF native.b[1] = 1 THEN NegInt(SignExt(native.b, AccessorBits))
         ELSE PosInt(ZeroExt(native.b, AccessorBits))
    [] native.t = "F32" -> JsonOfFloat(F32ToF64(native.f))
    [] native.t = "F64" -> JsonOfFloat(native.f)

\* ------------------------------------------------------------------------
\* Bounds and the inputs drawn from the host and the environment
\* ------------------------------------------------------------------------

\* longest argument list of a call
MaxArgs == 2

\* number of resource ids the table issues
MaxRid == 2

\* the dynamic loader: paths that load, and the symbols the library exports
Paths == {"libtest.so", "missing.so"}

Loadable == {"libtest.so"}

Symbols == {"add", "nope"}

Exports == {"add"}

\* (type, value) pairs the host passes: in range, narrowed, mismatched,
\* and of a type outside the vocabulary
FFIArg(arg_type, value) == [arg_type |-> arg_type, value |-> value]

ArgDomain ==
  { FFIArg("u8", PosInt(U64(300))),
    FFIArg("i32", NegInt(I64Neg(2))),
    FFIArg("f64", Float(Fin(0, 0, <<1, 1>> \o Zeros(F64Sig - 2)))),
    FFIArg("void", Null),
    FFIArg("u8", NegInt(I64Neg(1))),
    FFIArg("i32", Float(Fin(0, 0, <<1, 1>> \o Zeros(F64Sig - 2)))),
    FFIArg("f32", Null),
    FFIArg("ptr", PosInt(U64(1))) }

ReturnTypeNames == {"void", "u8", "f64", "ptr"}

RECURSIVE SeqsUpTo(_, _)
SeqsUpTo(S, n) ==
  IF n = 0 THEN {<<>>}
  ELSE LET shorter == SeqsUpTo(S, n - 1)
       IN  shorter \cup {Append(q, x) : q \in {r \in shorter : Len(r) = n - 1}, x \in S}

\* the argument lists the host passes
ArgLists == SeqsUpTo(ArgDomain, MaxArgs)

\* what the foreign function may leave in the return slot, per return type
NativeReturns(type) ==
  CASE type = "Void" -> {Unit}
    [] type \in UnsignedTypes \cup SignedTypes ->
         {NativeInt(type, Zeros(TypeBits(type))), NativeInt(type, Ones(TypeBits(type)))}
    [] type = "F32" ->
         {NativeFloat(type, Fin(0, 0, <<1>> \o Zeros(F32Sig - 1))),
          NativeFloat(type, FNaN), NativeFloat(type, FInf(1))}
    [] type = "F64" ->
         {NativeFloat(type, Fin(0, 0, <<1>> \o Zeros(F64Sig - 1))),
          NativeFloat(type, FNaN), NativeFloat(type, FInf(0))}

\* what a read through a cell whose storage was released may find besides
\* the value once written there
Stale(native) ==
  CASE native.t = "Void" -> {Unit}
    [] native.t \in UnsignedTypes \cup SignedTypes ->
         {NativeInt(native.t, Zeros(TypeBits(native.t)))}
    [] OTHER -> {NativeFloat(native.t, FZero(0))}

\* ------------------------------------------------------------------------
\* State
\* ------------------------------------------------------------------------

VARIABLES
  unstable,        \* Unstable(bool) put into the op state by init
  resource_table,  \* the DylibResources stored, each under its rid
  next_rid,        \* the next resource id the table issues
  status,          \* "running", "exited" (exit code 70) or "panicked"
  pc,              \* position inside the op being run, "idle" between ops
  req,             \* the arguments of the op being run (or last run)
  trace,           \* the calls the op has made so far, in order, and
                   \* whether each succeeded
  library,         \* the Library the op holds: loaded, or borrowed from the table
  return_type,     \* the FFIType the return type name resolved to
  types,           \* the argument types given to Cif::new
  cells,           \* the libffi Args built so far, with the state of their storage
  seen,            \* what the foreign function read through the cells
  result,          \* what the op returned to the host
  conv             \* a single conversion: FFIArg -> native value -> JSON

vars ==
  <<unstable, resource_table, next_rid, status, pc, req, trace, library,
    return_type, types, cells, seen, result, conv>>

NoReq == [op |-> "none"]

NoResult == [k |-> "none"]

Ok(v) == [k |-> "ok", v |-> v]

Err(e) == [k |-> "err", e |-> e]

NoLibrary == [loaded |-> FALSE]

\* an entry of trace
Call(name, ok) == [call |-> name, ok |-> ok]

ConvOff == [phase |-> "off"]

\* an Arg: the type it was built for, the value written to the storage it
\* points to, and whether that storage is still alive
Arg(type, v) == [t |-> type, v |-> v, live |-> TRUE]

callVars == <<library, return_type, types, cells, seen>>

tableVars == <<resource_table, next_rid>>

\* init(unstable): the state after the extension is built
Init ==
  /\ unstable \in BOOLEAN
  /\ resource_table = {}
  /\ next_rid = 0
  /\ status = "running"
  /\ pc = "idle"
  /\ req = NoReq
  /\ trace = <<>>
  /\ library = NoLibrary
  /\ return_type = "none"
  /\ types = <<>>
  /\ cells = <<>>
  /\ seen = <<>>
  /\ result = NoResult
  /\ conv = ConvOff

\* the host enters an op
Enter(r, at) ==
  /\ status = "running"
  /\ pc = "idle"
  /\ req' = r
  /\ pc' = at
  /\ UNCHANGED <<unstable, resource_table, next_rid, status, trace, result, conv>>
  /\ UNCHANGED callVars

\* the op returns r to the host
Return(r) ==
  /\ result' = r
  /\ pc' = "returned"

\* a panic unwinds out of the op: nothing is returned
PanicOut ==
  /\ status' = "panicked"
  /\ pc' = "panic"
  /\ UNCHANGED result

\* the host takes the result: the op's locals (the borrowed library, the Cif,
\* the Args) are dropped with its frame
HostResumes ==
  /\ pc = "returned"
  /\ pc' = "idle"
  /\ req' = NoReq
  /\ trace' = <<>>
  /\ library' = NoLibrary
  /\ return_type' = "none"
  /\ types' = <<>>
  /\ cells' = <<>>
  /\ seen' = <<>>
  /\ result' = NoResult
  /\ UNCHANGED <<unstable, resource_table, next_rid, status, conv>>

\* ------------------------------------------------------------------------
\* The resource table
\* ------------------------------------------------------------------------

DylibResource(rid, path) == [rid |-> rid, path |-> path]

Rids == {e.rid : e \in resource_table}

\* variant: a lookup that ignores the rid
TableGetAny(rid) == resource_table

\* resource_table.get::<DylibResource>(rid)
TableGet(rid) == {e \in resource_table : e.rid = rid}

\* Resource::close through the host's close op: the entry is removed and
\* the library dropped
Close(rid) ==
  /\ status = "running"
  /\ pc = "idle"
  /\ rid \in Rids
  /\ resource_table' = resource_table \ TableGet(rid)
  /\ UNCHANGED <<unstable, next_rid, status, pc, req, trace, result, conv>>
  /\ UNCHANGED callVars

\* ------------------------------------------------------------------------
\* The steps shared by both ops
\* ------------------------------------------------------------------------

\* check_unstable(state, api_name): exit(70) when the flag is off
check_unstable ==
  /\ pc \in {"dlopen_unstable", "dlcall_unstable"}
  /\ trace' = Append(trace, Call("check_unstable", unstable))
  /\ IF unstable
       THEN /\ pc' = (IF pc = "dlopen_unstable" THEN "dlopen_check" ELSE "dlcall_check")
            /\ UNCHANGED status
       ELSE /\ status' = "exited"
            /\ pc' = "exit"
  /\ UNCHANGED <<unstable, req, result, conv>>
  /\ UNCHANGED tableVars
  /\ UNCHANGED callVars

\* variant: the result of permissions.check() is dropped instead of
\* propagated with ?
checkIgnored ==
  /\ pc \in {"dlopen_check", "dlcall_check"}
  /\ \E allowed \in BOOLEAN :
       trace' = Append(trace, Call("check", allowed))
  /\ pc' = (IF pc = "dlopen_check" THEN "dlopen_check_read" ELSE "dlcall_get")
  /\ UNCHANGED <<unstable, status, req, result, conv>>
  /\ UNCHANGED tableVars
  /\ UNCHANGED callVars

\* permissions.check()?: the FfiPermissions implementation allows or denies
check ==
  /\ pc \in {"dlopen_check", "dlcall_check"}
  /\ \E allowed \in BOOLEAN :
       /\ trace' = Append(trace, Call("check", allowed))
       /\ IF allowed
            THEN /\ pc' = (IF pc = "dlopen_check" THEN "dlopen_check_read" ELSE "dlcall_get")
                 /\ UNCHANGED result
            ELSE Return(Err("PermissionDenied"))
  /\ UNCHANGED <<unstable, status, req, conv>>
  /\ UNCHANGED tableVars
  /\ UNCHANGED callVars

\* ------------------------------------------------------------------------
\* op_dlopen
\* ------------------------------------------------------------------------

op_dlopen(path) ==
  /\ next_rid < MaxRid
  /\ Enter([op |-> "dlopen", path |-> path], "dlopen_unstable")

\* permissions.check_read(Path::new(&path))?
check_read ==
  /\ pc = "dlopen_check_read"
  /\ \E allowed \in BOOLEAN :
       /\ trace' = Append(trace, Call("check_read", allowed))
       /\ IF allowed
            THEN /\ pc' = "dlopen_open"
                 /\ UNCHANGED result
            ELSE Return(Err("PermissionDenied"))
  /\ UNCHANGED <<unstable, status, req, conv>>
  /\ UNCHANGED tableVars
  /\ UNCHANGED callVars

\* variant: the error of Library::open is not propagated and a resource is
\* stored all the same
LibraryOpenUnchecked ==
  /\ pc = "dlopen_open"
  /\ trace' = Append(trace, Call("Library::open", req.path \in Loadable))
  /\ library' = [loaded |-> TRUE, path |-> req.path]
  /\ pc' = "dlopen_add"
  /\ UNCHANGED <<unstable, status, req, result, conv, return_type, types, cells, seen>>
  /\ UNCHANGED tableVars

\* Library::open(path)?
LibraryOpen ==
  /\ pc = "dlopen_open"
  /\ trace' = Append(trace, Call("Library::open", req.path \in Loadable))
  /\ IF req.path \in Loadable
       THEN /\ library' = [loaded |-> TRUE, path |-> req.path]
            /\ pc' = "dlopen_add"
            /\ UNCHANGED result
       ELSE /\ Return(Err("LibraryLoadError"))
            /\ UNCHANGED library
  /\ UNCHANGED <<unstable, status, req, conv, return_type, types, cells, seen>>
  /\ UNCHANGED tableVars

\* Ok(state.resource_table.add(DylibResource(..)))
ResourceAdd ==
  /\ pc = "dlopen_add"
  /\ trace' = Append(trace, Call("resource_table.add", TRUE))
  /\ resource_table' = resource_table \cup {DylibResource(next_rid, library.path)}
  /\ next_rid' = next_rid + 1
  /\ Return(Ok(next_rid))
  /\ UNCHANGED <<unstable, status, req, conv>>
  /\ UNCHANGED callVars

\* ------------------------------------------------------------------------
\* op_dlcall
\* ------------------------------------------------------------------------

DlcallArgs(sym, args, ret) == [sym |-> sym, args |-> args, return_type |-> ret]

op_dlcall(rid, dlcall_args) ==
  Enter([op |-> "dlcall", rid |-> rid, sym |-> dlcall_args.sym,
         args |-> dlcall_args.args, return_type |-> dlcall_args.return_type],
        "dlcall_unstable")

\* state.resource_table.get::<DylibResource>(rid).ok_or_else(bad_resource_id)?
ResourceGet ==
  /\ pc = "dlcall_get"
  /\ trace' = Append(trace, Call("resource_table.get", TableGet(req.rid) # {}))
  /\ IF TableGet(req.rid) # {}
       THEN /\ library' = [loaded |-> TRUE, path |-> (CHOOSE e \in TableGet(req.rid) : TRUE).path]
            /\ pc' = "dlcall_symbol"
            /\ UNCHANGED result
       ELSE /\ Return(Err("BadResource"))
            /\ UNCHANGED library
  /\ UNCHANGED <<unstable, status, req, conv, return_type, types, cells, seen>>
  /\ UNCHANGED tableVars

\* library.0.symbol::<*const c_void>(&dlcall_args.sym)?
Symbol ==
  /\ pc = "dlcall_symbol"
  /\ trace' = Append(trace, Call("symbol", req.sym \in Exports))
  /\ IF req.sym \in Exports
       THEN /\ pc' = "dlcall_return_type"
            /\ UNCHANGED result
       ELSE Return(Err("SymbolNotFound"))
  /\ UNCHANGED <<unstable, status, req, conv>>
  /\ UNCHANGED tableVars
  /\ UNCHANGED callVars

\* let return_type = FFIType::from(dlcall_args.return_type); the iterator
\* `types` built just before is lazy and has converted nothing yet
ReturnTypeFrom ==
  /\ pc = "dlcall_return_type"
  /\ LET t == FFITypeFromString(req.return_type)
     IN  /\ trace' = Append(trace, Call("FFIType::from", t # "unimplemented"))
         /\ IF t = "unimplemented"
              THEN /\ PanicOut
                   /\ UNCHANGED return_type
              ELSE /\ return_type' = t
                   /\ pc' = "dlcall_cif"
                   /\ UNCHANGED <<status, result>>
  /\ UNCHANGED <<unstable, req, conv, library, types, cells, seen>>
  /\ UNCHANGED tableVars

\* variant: the types collected in reverse order
CifTypesReversed(args) ==
  [i \in 1..Len(args) |-> FFITypeFromString(args[Len(args) + 1 - i].arg_type)]

\* the types Cif::new collects from the iterator: FFIType::from(arg.arg_type)
\* of each argument, in order
CifTypes(args) == [i \in 1..Len(args) |-> FFITypeFromString(args[i].arg_type)]

\* Cif::new(types, return_type.into())
CifNew ==
  /\ pc = "dlcall_cif"
  /\ LET ts == CifTypes(req.args)
         bad == \E i \in 1..Len(ts) : ts[i] = "unimplemented"
     IN  /\ trace' = Append(trace, Call("Cif::new", ~bad))
         /\ IF bad
              THEN /\ PanicOut
                   /\ UNCHANGED types
              ELSE /\ types' = ts
                   /\ pc' = "dlcall_args"
                   /\ UNCHANGED <<status, result>>
  /\ UNCHANGED <<unstable, req, conv, library, return_type, cells, seen>>
  /\ UNCHANGED tableVars

\* |arg| arg.into() on the next argument, up to Arg::new(&(..)): the value is
\* computed into a temporary and the Arg points to it
ArgNew ==
  /\ pc = "dlcall_args"
  /\ Len(cells) < Len(req.args)
  /\ LET arg == req.args[Len(cells) + 1]
         type == FFITypeFromString(arg.arg_type)
         r == ArgFrom(arg)
     IN  /\ trace' = Append(trace, Call("Arg::from", ~r.panic))
         /\ IF r.panic
              THEN /\ PanicOut
                   /\ UNCHANGED cells
              ELSE /\ cells' = Append(cells, Arg(type, r.v))
                   /\ pc' = "dlcall_arg_return"
                   /\ UNCHANGED <<status, result>>
  /\ UNCHANGED <<unstable, req, conv, library, return_type, types, seen>>
  /\ UNCHANGED tableVars

\* whether the referent of Arg::new(&(..)) outlives the match arm: &() is a
\* constant promoted to a static, every other referent is a temporary
OutlivesFrom(type) == type = "Void"

\* From<FFIArg>::from returns the Arg: its temporaries are dropped
ArgReturn ==
  /\ pc = "dlcall_arg_return"
  /\ cells' = [cells EXCEPT ![Len(cells)].live = OutlivesFrom(cells[Len(cells)].t)]
  /\ pc' = "dlcall_args"
  /\ UNCHANGED <<unstable, status, req, conv, trace, result, library,
                 return_type, types, seen>>
  /\ UNCHANGED tableVars

\* what a read through an Arg finds
Reads(cell) == IF cell.live THEN {cell.v} ELSE {cell.v} \cup Stale(cell.v)

RECURSIVE ReadAll(_)
ReadAll(cs) ==
  IF cs = <<>> THEN {<<>>}
  ELSE {<<v>> \o rest : v \in Reads(Head(cs)), rest \in ReadAll(Tail(cs))}

\* json!(unsafe { cif.call::<T>(fn_code_ptr, &args) }) of the arm of
\* return_type
CifCall ==
  /\ pc = "dlcall_args"
  /\ Len(cells) = Len(req.args)
  /\ seen' \in ReadAll(cells)
  /\ \E native \in NativeReturns(return_type) :
       /\ trace' = Append(trace, [call |-> "cif.call", ok |-> TRUE, native |-> native])
       /\ Return(Ok(JsonOf(native)))
  /\ UNCHANGED <<unstable, status, req, conv, library, return_type, types, cells>>
  /\ UNCHANGED tableVars

\* ------------------------------------------------------------------------
\* The ops as the host drives them
\* ------------------------------------------------------------------------

HostOpens ==
  /\ pc = "idle"
  /\ \E path \in Paths : op_dlopen(path)

HostCloses ==
  /\ pc = "idle"
  /\ \E rid \in 0..MaxRid : Close(rid)

HostCalls ==
  /\ pc = "idle"
  /\ \E rid \in 0..MaxRid, sym \in Symbols, ret \in ReturnTypeNames,
        args \in ArgLists :
          op_dlcall(rid, DlcallArgs(sym, args, ret))

Next ==
  \/ HostOpens
  \/ check_unstable
  \/ check
  \/ check_read
  \/ LibraryOpen
  \/ ResourceAdd
  \/ HostCloses
  \/ HostCalls
  \/ ResourceGet
  \/ Symbol
  \/ ReturnTypeFrom
  \/ CifNew
  \/ ArgNew
  \/ ArgReturn
  \/ CifCall
  \/ HostResumes

Spec == Init /\ [][Next]_vars

\* ------------------------------------------------------------------------
\* One conversion on its own: an FFIArg through From<FFIArg> for Arg, and
\* the native value of that type back through json!
\* ------------------------------------------------------------------------

TypeNames ==
  {"void", "u8", "i8", "u16", "i16", "u32", "i32", "u64", "i64",
   "usize", "isize", "f32", "f64"}

\* 2^k as a u64
Pow2(k) == Zeros(AccessorBits - k - 1) \o <<1>> \o Zeros(k)

ConvValues ==
  {PosInt(U64(n)) : n \in {0, 1, 44, 127, 128, 255, 256, 300, 32767, 32768,
                           65535, 65536, 70000}}
  \cup {PosInt(Zeros(33) \o Ones(31)), PosInt(Pow2(31)),
        PosInt(Zeros(32) \o Ones(32)), PosInt(Pow2(32)),
        PosInt(Inc(Inc(Inc(Pow2(32))))), PosInt(Inc(Pow2(53))),
        PosInt(<<0>> \o Ones(63)), PosInt(Pow2(63)), PosInt(Ones(64))}
  \cup {NegInt(I64Neg(n)) : n \in {1, 2, 128, 129, 32768, 32769, 70000}}
  \cup {NegInt(TwosNeg(Pow2(31))), NegInt(TwosNeg(Inc(Pow2(31)))),
        NegInt(Pow2(63))}
  \cup {Float(Fin(0, 0, <<1, 1>> \o Zeros(F64Sig - 2))),
        Float(Fin(1, 1, <<1, 0, 1>> \o Zeros(F64Sig - 3))),
        Float(Fin(0, -4, <<1>> \o Zeros(F64Sig - 2) \o <<1>>)),
        Float(Fin(0, 7, <<1>> \o Zeros(F64Sig - 1))),
        Float(Fin(0, -149, <<1>> \o Zeros(F64Sig - 1))),
        Float(Fin(0, -150, <<1>> \o Zeros(F64Sig - 1))),
        Float(Fin(0, 127, Ones(F32Sig) \o Zeros(F64Sig - F32Sig))),
        Float(Fin(0, 127, Ones(F64Sig))),
        Float(Fin(1, 128, <<1>> \o Zeros(F64Sig - 1))),
        Float(FZero(0)), Float(FZero(1))}
  \cup {Null, Str}

InitConv ==
  /\ unstable = TRUE
  /\ resource_table = {}
  /\ next_rid = 0
  /\ status = "running"
  /\ pc = "idle"
  /\ req = NoReq
  /\ trace = <<>>
  /\ library = NoLibrary
  /\ return_type = "none"
  /\ types = <<>>
  /\ cells = <<>>
  /\ seen = <<>>
  /\ result = NoResult
  /\ \E name \in TypeNames, value \in ConvValues :
       conv = [phase |-> "arg", arg |-> FFIArg(name, value)]

\* Arg::from(arg): the native value, or the panic
ConvArgFrom ==
  /\ conv.phase = "arg"
  /\ LET r == ArgFrom(conv.arg)
     IN  conv' = IF r.panic
                   THEN [phase |-> "panicked", arg |-> conv.arg]
                   ELSE [phase |-> "native", arg |-> conv.arg, native |-> r.v]
  /\ UNCHANGED <<unstable, resource_table, next_rid, status, pc, req, trace,
                 result>>
  /\ UNCHANGED callVars

\* json!(x) of the native value
ConvJson ==
  /\ conv.phase = "native"
  /\ conv' = [phase |-> "json", arg |-> conv.arg, native |-> conv.native,
              json |-> JsonOf(conv.native)]
  /\ UNCHANGED <<unstable, resource_table, next_rid, status, pc, req, trace,
                 result>>
  /\ UNCHANGED callVars

NextConv == ConvArgFrom \/ ConvJson

SpecConv == InitConv /\ [][NextConv]_vars

\* ------------------------------------------------------------------------
\* Numbers as numbers: used to state the properties, not by the ops
\* ------------------------------------------------------------------------

IsNumber(value) == value.k \in {"PosInt", "NegInt", "Float"}

\* the exact value of a number: zero, or sign, exponent of the leading bit
\* and the significant bits down to the last 1
MagExact(s, mag) ==
  LET b == StripLeading(mag)
  IN  IF b = <<>> THEN [z |-> TRUE]
      ELSE [z |-> FALSE, s |-> s, e |-> Len(b) - 1, m |-> StripTrailing(b)]

Exact(value) ==
  CASE value.k = "PosInt" -> MagExact(0, value.b)
    [] value.k = "NegInt" -> MagExact(1, TwosNeg(value.b))
    [] value.k = "Float" ->
         IF value.f.c = "zero" THEN [z |-> TRUE]
         ELSE [z |-> FALSE, s |-> value.f.s, e |-> value.f.e,
               m |-> StripTrailing(value.f.m)]

NumEq(a, b) == IsNumber(a) /\ IsNumber(b) /\ Exact(a) = Exact(b)

\* the values a native type can hold exactly
Representable(type, value) ==
  /\ IsNumber(value)
  /\ LET w == TypeBits(type)
         x == Exact(value)
     IN  CASE type \in UnsignedTypes ->
                value.k = "PosInt" /\ High(value.b, w) = Zeros(AccessorBits - w)
           [] type \in SignedTypes ->
                \/ value.k = "PosInt" /\ High(value.b, w - 1) = Zeros(AccessorBits - w + 1)
                \/ value.k = "NegInt" /\ High(value.b, w - 1) = Ones(AccessorBits - w + 1)
           [] type = "F64" -> x.z \/ Len(x.m) <= F64Sig
           [] type = "F32" ->
                \/ x.z
                \/ /\ Len(x.m) <= F32Sig
                   /\ x.e <= F32MaxExp
                   /\ x.e - (Len(x.m) - 1) >= F32MinExp - (F32Sig - 1)
           [] OTHER -> FALSE

\* an integer of magnitude below 2^30, as an Int
IsSmall(value) ==
  \/ value.k = "PosInt" /\ High(value.b, 30) = Zeros(AccessorBits - 30)
  \/ value.k = "NegInt" /\ High(value.b, 30) = Ones(AccessorBits - 30)

SmallInt(value) ==
  IF value.k = "PosInt" THEN BitsNat(Low(value.b, 30))
  ELSE BitsNat(Low(value.b, 30)) - 2 ^ 30

\* the accessor of the type takes the value
Accepted(type, value) ==
  \/ type \in UnsignedTypes /\ value_as_u64(value).some
  \/ type \in SignedTypes /\ value_as_i64(value).some

ConvType == FFITypeFromString(conv.arg.arg_type)

\* ------------------------------------------------------------------------
\* Properties
\* ------------------------------------------------------------------------

InRange(type, value) ==
  /\ IsNumber(value)
  /\ LET x == Exact(value)
     IN  CASE type \in UnsignedTypes \cup SignedTypes -> Representable(type, value)
           [] type = "F64" -> TRUE
           [] type = "F32" ->
                \/ x.z
                \/ x.e < F32MaxExp
                \/ x.e = F32MaxExp /\ Len(x.m) <= F32Sig
           [] OTHER -> FALSE

Touching ==
  {"Library::open", "resource_table.add", "resource_table.get", "symbol",
   "FFIType::from", "Cif::new", "Arg::from", "cif.call"}

Made(name) == \E i \in 1..Len(trace) : trace[i].call = name

Last == trace[Len(trace)]

\* the op is over: it returned, panicked, or exited the process
Over == pc \in {"returned", "panic", "exit"}

Called == req.op = "dlcall" /\ Made("cif.call")

\* C1: in both ops the feature gate is the first call and the permission
\* check the second; nothing that touches a library, the table or a symbol
\* is called unless both passed; with the flag off the process exits having
\* done nothing else; a denial returns PermissionDenied with nothing touched.
C1_GateThenPermission ==
  /\ Len(trace) >= 1 => trace[1] = Call("check_unstable", unstable)
  /\ Len(trace) >= 2 => trace[2].call = "check"
  /\ \A i \in 1..Len(trace) :
       trace[i].call \in Touching =>
         /\ i > 2
         /\ trace[1] = Call("check_unstable", TRUE)
         /\ trace[2] = Call("check", TRUE)
  /\ (req.op # "none" /\ ~unstable /\ Len(trace) >= 1) =>
       /\ status = "exited"
       /\ Len(trace) = 1
       /\ result = NoResult
  /\ status = "exited" => ~unstable
  /\ (Len(trace) = 2 /\ ~trace[2].ok) =>
       /\ result = Err("PermissionDenied")
       /\ pc = "returned"
  /\ result = Err("PermissionDenied") =>
       /\ \A i \in 1..Len(trace) : trace[i].call \notin Touching
       /\ ~Last.ok
       /\ library = NoLibrary
       /\ cells = <<>>

\* C1 witness: op_dlcall was denied by the permission check after the gate
\* passed
C1_Witness ==
  /\ req.op = "dlcall"
  /\ result = Err("PermissionDenied")
  /\ trace = <<Call("check_unstable", TRUE), Call("check", FALSE)>>

\* C4: a call with a rid that is not in the table returns the bad resource
\* id error, and the table lookup is the last thing it does: no symbol
\* lookup, no type, no argument, no foreign call.
C4_InvalidHandle ==
  (req.op = "dlcall" /\ req.rid \notin Rids /\ Len(trace) >= 3) =>
    /\ trace[3] = Call("resource_table.get", FALSE)
    /\ Len(trace) = 3
    /\ result = Err("BadResource")
    /\ pc = "returned"
    /\ library = NoLibrary
    /\ return_type = "none"
    /\ types = <<>>
    /\ cells = <<>>
    /\ seen = <<>>

\* C4 witness: a call on a rid that was issued and then closed failed
C4_Witness ==
  /\ req.op = "dlcall"
  /\ req.rid < next_rid
  /\ req.rid \notin Rids
  /\ result = Err("BadResource")

\* C7: while op_dlopen runs the table changes only by the insertion that
\* follows a successful Library::open and returns the new rid; a step that
\* makes op_dlopen fail leaves the table as it was and nothing was inserted
\* before it.
C7_FailedOpenLeavesTable ==
  [][/\ (pc # "idle" /\ <<resource_table, next_rid>>' # <<resource_table, next_rid>>) =>
          /\ req.op = "dlopen"
          /\ req.path \in Loadable
          /\ Last = Call("Library::open", TRUE)
          /\ resource_table' = resource_table \cup {DylibResource(next_rid, req.path)}
          /\ next_rid \notin Rids
          /\ next_rid' = next_rid + 1
          /\ result' = Ok(next_rid)
     /\ (req.op = "dlopen" /\ result = NoResult /\ result'.k = "err") =>
          /\ UNCHANGED <<resource_table, next_rid>>
          /\ ~Made("resource_table.add")
          /\ result' \in {Err("PermissionDenied"), Err("LibraryLoadError")}
    ]_vars

\* C7 witness: opening a path that does not load failed while the table
\* held an entry
C7_Witness ==
  /\ req.op = "dlopen"
  /\ req.path \notin Loadable
  /\ result = Err("LibraryLoadError")
  /\ resource_table # {}
  /\ ~Made("resource_table.add")

C9_VoidNullElseNumber ==
  Called =>
    /\ result.k = "ok"
    /\ return_type = "Void" => result.v = Null
    /\ return_type # "Void" => IsNumber(result.v)

\* C9 as amended: after the foreign call the result is null for the return
\* type void, a JSON number for every integer return type, and for f32 and
\* f64 a JSON number when the native result is finite and null when it is
\* NaN or infinite.
C9_VoidNullElseNumberIfFinite ==
  Called =>
    /\ result.k = "ok"
    /\ return_type = FFITypeFromString(req.return_type)
    /\ Last.native.t = return_type
    /\ return_type = "Void" => result.v = Null
    /\ return_type \in UnsignedTypes \cup SignedTypes => IsNumber(result.v)
    /\ return_type \in FloatTypes =>
         IF Last.native.f.c \in {"nan", "inf"} THEN result.v = Null
         ELSE IsNumber(result.v)

\* C9 witness: a void call with arguments returned null
C9_Witness ==
  /\ Called
  /\ return_type = "Void"
  /\ result = Ok(Null)
  /\ Len(req.args) > 0

\* the call got as far as building the Cif: gate, permission, table lookup,
\* symbol lookup and return type all passed
ReachedCif == req.op = "dlcall" /\ Made("Cif::new")

UnknownArgType == \E i \in 1..Len(req.args) : req.args[i].arg_type \notin TypeNames

\* C2: a call with an argument type outside the vocabulary returns the
\* UnknownType error to the caller, with no Arg built and no foreign call.
C2_UnknownTypeIsReturned ==
  (ReachedCif /\ UnknownArgType /\ Over) =>
    /\ status = "running"
    /\ result = Err("UnknownType")
    /\ cells = <<>>
    /\ ~Made("cif.call")

\* the value is of a class the accessor of the type does not take: for an
\* unsigned type a negative integer or a non-integer, for a signed type a
\* non-integer or an integer above the i64 maximum, for any numeric type a
\* value that is no number
Mismatch(type, value) ==
  \/ type \in UnsignedTypes /\ value.k # "PosInt"
  \/ type \in SignedTypes /\ (value.k \notin {"PosInt", "NegInt"} \/ (value.k = "PosInt" /\ value.b[1] = 1))
  \/ type \in FloatTypes /\ ~IsNumber(value)

\* C3: a call whose types are all known and one of whose values is of a
\* class its type does not take returns the TypeMismatch error to the
\* caller, with no foreign call.
C3_TypeMismatchIsReturned ==
  (ReachedCif /\ ~UnknownArgType /\ Over
     /\ \E i \in 1..Len(req.args) :
          Mismatch(FFITypeFromString(req.args[i].arg_type), req.args[i].value)) =>
    /\ status = "running"
    /\ result = Err("TypeMismatch")
    /\ ~Made("cif.call")

\* C10: when the foreign call is made every Arg points to storage that is
\* still alive and holds the value written when the Arg was built, so the
\* foreign function reads exactly those values.
C10_CellsLiveAtCall ==
  Called =>
    \A i \in 1..Len(cells) :
      /\ cells[i].live
      /\ seen[i] = cells[i].v

====
